---- MODULE Spec2Model ----
(***************************************************************************)
(* The library record service of src/app/library_rest_api.py: the Book,    *)
(* Reader and Loan tables and the request handlers over them.              *)
(*                                                                         *)
(* A handler runs on its own session (get_db, lines 54-59) and therefore   *)
(* in its own transaction: nothing it stages is visible to the others      *)
(* before db.commit().  Every database statement of a handler is one step, *)
(* so two requests interleave between their lookups, commit and refresh.   *)
(* Strings are coded as naturals in collation order, 0 being the empty     *)
(* string "".                                                              *)
(***************************************************************************)
EXTENDS Integers, Sequences, FiniteSets, TLC

VARIABLES
    books,          \* committed rows of table books
    readers,        \* committed rows of table readers
    loans,          \* committed rows of table loans
    nextBookId,     \* next value of the books id sequence
    nextReaderId,   \* next value of the readers id sequence
    nextLoanId,     \* next value of the loans id sequence
    req,            \* per worker: the request it is handling and its session
    resp,           \* the response sent by the last step, NoResp if none
    deletedReaders  \* history: ids whose DELETE /readers/{id} was answered 200

vars == <<books, readers, loans, nextBookId, nextReaderId, nextLoanId,
          req, resp, deletedReaders>>

store == <<books, readers, loans>>

history == <<deletedReaders>>

-----------------------------------------------------------------------------
(* Bounds *)

MaxBookId == 2
MaxReaderId == 1
MaxLoanId == 2
MaxTitle == 2
MaxPage == 2
MaxQueryBooks == 2

\* author: str = Query(None), topic: str = Query(None)
None == -1

Workers == {1, 2}

BookIds == 1..MaxBookId
ReaderIds == 1..MaxReaderId
Pages == 0..MaxPage

-----------------------------------------------------------------------------
(* Request bodies and rows *)

\* BookCreate bodies the concurrent specification sends.
BookCreate == [title : 1..MaxTitle, author : {1}, publisher : {1}, topic : {1}]

\* new_publisher values of PUT /books/update_publisher/.
NewPublishers == {2}

\* ReaderCreate bodies.
ReaderCreate == [name : {1}, address : {1}, phone : {1}]

\* LoanCreate bodies.
LoanCreate == [reader_id : ReaderIds, book_id : BookIds]

NoBody == [title |-> 0, author |-> 0, publisher |-> 0, topic |-> 0]

NoRow == [id |-> 0, title |-> 0, author |-> 0, publisher |-> 0, topic |-> 0]

BookRow(id, body) ==
    [id |-> id, title |-> body.title, author |-> body.author,
     publisher |-> body.publisher, topic |-> body.topic]

ReaderRow(id, body) ==
    [id |-> id, name |-> body.name, address |-> body.address, phone |-> body.phone]

LoanRow(id, book_id, reader_id) ==
    [id |-> id, book_id |-> book_id, reader_id |-> reader_id]

Idle ==
    [op |-> "idle", pc |-> "idle", book_id |-> 0, reader_id |-> 0,
     body |-> NoBody, new_publisher |-> 0, row |-> NoRow, loans |-> {},
     wrote |-> FALSE]

\* The query parameters of a request.
QueryArgs(skip, limit, order_by, ascending, author, topic) ==
    [skip |-> skip, limit |-> limit, order_by |-> order_by,
     ascending |-> ascending, author |-> author, topic |-> topic]

NoArgs == QueryArgs(0, 0, "", TRUE, None, None)

NoResp ==
    [op |-> "none", status |-> 0, raised |-> "none", applied |-> FALSE,
     book_id |-> 0, reader_id |-> 0, title |-> 0, args |-> NoArgs, rows |-> <<>>]

Min(a, b) == IF a <= b THEN a ELSE b

-----------------------------------------------------------------------------
(* The schema (models.py) *)

\* The schema without the unique constraint on books.title.
UniqueTitleUnchecked(id, title) == FALSE

\* books.title carries a unique constraint: the statement that would store
\* `title` in a row other than `id` fails with IntegrityError.
UniqueTitleViolated(id, title) ==
    \E b \in books : b.id # id /\ b.title = title

\* loans.book_id and loans.reader_id are not enforced against books and
\* readers: deleting a referenced row succeeds and leaves the loans.
ForeignKeysEnforced == FALSE

-----------------------------------------------------------------------------
(* What every handler shares *)

\* except Exception as e: db.rollback(); raise HTTPException(status_code=500).
\* HTTPException is an Exception, so the handler's own 400 and 404 are caught
\* here as well.
ExceptHandler(raised) == 500

\* The status of a response that returns normally: the decorators set no
\* status_code.
StatusOK == 200

InFlight(w) == req[w].op # "idle"

NumInFlight(op, pc) == Cardinality({w \in Workers : req[w].op = op /\ req[w].pc = pc})

\* A response of worker w's request, sent from inside the handler's try.
Failure(op, raised, applied, book_id, reader_id, title) ==
    [op |-> op, status |-> ExceptHandler(raised), raised |-> raised,
     applied |-> applied, book_id |-> book_id, reader_id |-> reader_id,
     title |-> title, args |-> NoArgs, rows |-> <<>>]

Success(op, applied, book_id, reader_id, title) ==
    [op |-> op, status |-> StatusOK, raised |-> "none",
     applied |-> applied, book_id |-> book_id, reader_id |-> reader_id,
     title |-> title, args |-> NoArgs, rows |-> <<>>]

\* The handler of worker w ends in the except clause.
Fail(w, raised) ==
    /\ resp' = Failure(req[w].op, raised, req[w].wrote, req[w].book_id,
                       req[w].reader_id, req[w].body.title)
    /\ req' = [req EXCEPT ![w] = Idle]

\* The handler of worker w returns.
Return(w, applied) ==
    /\ resp' = Success(req[w].op, applied, req[w].book_id,
                       req[w].reader_id, req[w].body.title)
    /\ req' = [req EXCEPT ![w] = Idle]

\* The handler of worker w goes on to its next statement.
Goto(w, r) ==
    /\ req' = [req EXCEPT ![w] = r]
    /\ resp' = NoResp

BookFound(book_id) == \E b \in books : b.id = book_id

ReaderFound(reader_id) == \E r \in readers : r.id = reader_id

BookById(book_id) == CHOOSE b \in books : b.id = book_id

-----------------------------------------------------------------------------
(* POST /books/ *)

TitleTaken(title) == \E b \in books : b.title = title

\* existing_book lookup, then raise 400 or db.add(new_book).
CreateBookQuery(w) ==
    \E body \in BookCreate :
        /\ ~InFlight(w)
        /\ nextBookId + NumInFlight("create_book", "commit") <= MaxBookId
        /\ IF TitleTaken(body.title)
           THEN /\ resp' = Failure("create_book", "HTTP400", FALSE, 0, 0, body.title)
                /\ req' = req
           ELSE Goto(w, [Idle EXCEPT !.op = "create_book", !.pc = "commit",
                                     !.body = body])
        /\ UNCHANGED <<store, nextBookId, nextReaderId, nextLoanId, history>>

\* db.commit(): INSERT INTO books.  The id is drawn from the sequence before
\* the unique index is checked, so a rejected insert uses an id up.
CreateBookCommit(w) ==
    /\ req[w].op = "create_book" /\ req[w].pc = "commit"
    /\ nextBookId' = nextBookId + 1
    /\ IF UniqueTitleViolated(nextBookId, req[w].body.title)
       THEN /\ Fail(w, "IntegrityError")
            /\ books' = books
       ELSE /\ books' = books \cup {BookRow(nextBookId, req[w].body)}
            /\ Goto(w, [req[w] EXCEPT !.pc = "refresh", !.book_id = nextBookId,
                                      !.wrote = TRUE])
    /\ UNCHANGED <<readers, loans, nextReaderId, nextLoanId, history>>

\* db.refresh(new_book) and return.
CreateBookRefresh(w) ==
    /\ req[w].op = "create_book" /\ req[w].pc = "refresh"
    /\ IF BookFound(req[w].book_id)
       THEN Return(w, TRUE)
       ELSE Fail(w, "InvalidRequestError")
    /\ UNCHANGED <<store, nextBookId, nextReaderId, nextLoanId, history>>

-----------------------------------------------------------------------------
(* PUT /books/{book_id} *)

Columns == {"title", "author", "publisher", "topic"}

\* The columns the session finds modified: those whose new value differs
\* from the value loaded.
Dirty(row, body) == {c \in Columns : body[c] # row[c]}

\* UPDATE books SET <dirty columns> WHERE id = row.id, applied to `current`.
UpdateRow(current, dirty, body) ==
    [c \in DOMAIN current |-> IF c \in dirty THEN body[c] ELSE current[c]]

\* existing_book lookup, then raise 404 or assign the four fields.
UpdateBookQuery(w) ==
    \E book_id \in BookIds, body \in BookCreate :
        /\ ~InFlight(w)
        /\ IF ~BookFound(book_id)
           THEN /\ resp' = Failure("update_book", "HTTP404", FALSE, book_id, 0, body.title)
                /\ req' = req
           ELSE Goto(w, [Idle EXCEPT !.op = "update_book", !.pc = "commit",
                                     !.book_id = book_id, !.body = body,
                                     !.row = BookById(book_id)])
        /\ UNCHANGED <<store, nextBookId, nextReaderId, nextLoanId, history>>

\* db.commit(): UPDATE books, when a column is dirty.
UpdateBookCommit(w) ==
    /\ req[w].op = "update_book" /\ req[w].pc = "commit"
    /\ LET dirty == Dirty(req[w].row, req[w].body)
       IN  IF dirty = {}
           THEN /\ books' = books
                /\ Goto(w, [req[w] EXCEPT !.pc = "refresh"])
           ELSE IF ~BookFound(req[w].book_id)
           THEN /\ books' = books
                /\ Fail(w, "StaleDataError")
           ELSE IF "title" \in dirty
                   /\ UniqueTitleViolated(req[w].book_id, req[w].body.title)
           THEN /\ books' = books
                /\ Fail(w, "IntegrityError")
           ELSE /\ books' = (books \ {BookById(req[w].book_id)})
                            \cup {UpdateRow(BookById(req[w].book_id), dirty, req[w].body)}
                /\ Goto(w, [req[w] EXCEPT !.pc = "refresh", !.wrote = TRUE])
    /\ UNCHANGED <<readers, loans, nextBookId, nextReaderId, nextLoanId, history>>

\* db.refresh(existing_book) and return.
UpdateBookRefresh(w) ==
    /\ req[w].op = "update_book" /\ req[w].pc = "refresh"
    /\ IF BookFound(req[w].book_id)
       THEN Return(w, req[w].wrote)
       ELSE Fail(w, "InvalidRequestError")
    /\ UNCHANGED <<store, nextBookId, nextReaderId, nextLoanId, history>>

-----------------------------------------------------------------------------
(* DELETE /books/{book_id} *)

\* book lookup, then raise 404 or db.delete(book).
DeleteBookQuery(w) ==
    \E book_id \in BookIds :
        /\ ~InFlight(w)
        /\ IF ~BookFound(book_id)
           THEN /\ resp' = Failure("delete_book", "HTTP404", FALSE, book_id, 0, 0)
                /\ req' = req
           ELSE Goto(w, [Idle EXCEPT !.op = "delete_book", !.pc = "commit",
                                     !.book_id = book_id])
        /\ UNCHANGED <<store, nextBookId, nextReaderId, nextLoanId, history>>

\* delete_book as it would be with a cascade to the book's loans.
DeleteBookRowsCascade(book_id) ==
    <<{b \in books : b.id # book_id}, {l \in loans : l.book_id # book_id}>>

\* The rows of books and loans after DELETE FROM books WHERE id = book_id.
DeleteBookRows(book_id) ==
    <<{b \in books : b.id # book_id}, loans>>

\* db.commit(): the DELETE (one that matches no row only warns), then return.
DeleteBookCommit(w) ==
    /\ req[w].op = "delete_book" /\ req[w].pc = "commit"
    /\ IF ForeignKeysEnforced /\ \E l \in loans : l.book_id = req[w].book_id
       THEN /\ Fail(w, "IntegrityError")
            /\ UNCHANGED <<books, loans>>
       ELSE /\ books' = DeleteBookRows(req[w].book_id)[1]
            /\ loans' = DeleteBookRows(req[w].book_id)[2]
            /\ Return(w, BookFound(req[w].book_id))
    /\ UNCHANGED <<readers, nextBookId, nextReaderId, nextLoanId, history>>

-----------------------------------------------------------------------------
(* PUT /books/update_publisher/ *)

\* book_to_update lookup, then raise 404 or assign publisher.
UpdateBooksPublisherQuery(w) ==
    \E book_id \in BookIds, new_publisher \in NewPublishers :
        /\ ~InFlight(w)
        /\ IF ~BookFound(book_id)
           THEN /\ resp' = Failure("update_books_publisher", "HTTP404", FALSE,
                                   book_id, 0, 0)
                /\ req' = req
           ELSE Goto(w, [Idle EXCEPT !.op = "update_books_publisher", !.pc = "commit",
                                     !.book_id = book_id,
                                     !.new_publisher = new_publisher,
                                     !.row = BookById(book_id)])
        /\ UNCHANGED <<store, nextBookId, nextReaderId, nextLoanId, history>>

\* db.commit(): UPDATE books SET publisher, when it is dirty; then return.
UpdateBooksPublisherCommit(w) ==
    /\ req[w].op = "update_books_publisher" /\ req[w].pc = "commit"
    /\ IF req[w].new_publisher = req[w].row.publisher
       THEN /\ books' = books
            /\ Return(w, FALSE)
       ELSE IF ~BookFound(req[w].book_id)
       THEN /\ books' = books
            /\ Fail(w, "StaleDataError")
       ELSE /\ books' = (books \ {BookById(req[w].book_id)})
                        \cup {[BookById(req[w].book_id)
                                 EXCEPT !.publisher = req[w].new_publisher]}
            /\ Return(w, TRUE)
    /\ UNCHANGED <<readers, loans, nextBookId, nextReaderId, nextLoanId, history>>

-----------------------------------------------------------------------------
(* POST /readers/ *)

\* db.add(new_reader); db.commit(): INSERT INTO readers.
CreateReaderCommit(w) ==
    \E body \in ReaderCreate :
        /\ ~InFlight(w)
        /\ nextReaderId <= MaxReaderId
        /\ readers' = readers \cup {ReaderRow(nextReaderId, body)}
        /\ nextReaderId' = nextReaderId + 1
        /\ Goto(w, [Idle EXCEPT !.op = "create_reader", !.pc = "refresh",
                                !.reader_id = nextReaderId, !.wrote = TRUE])
        /\ UNCHANGED <<books, loans, nextBookId, nextLoanId, history>>

\* db.refresh(new_reader) and return.
CreateReaderRefresh(w) ==
    /\ req[w].op = "create_reader" /\ req[w].pc = "refresh"
    /\ IF ReaderFound(req[w].reader_id)
       THEN Return(w, TRUE)
       ELSE Fail(w, "InvalidRequestError")
    /\ UNCHANGED <<store, nextBookId, nextReaderId, nextLoanId, history>>

-----------------------------------------------------------------------------
(* DELETE /readers/{reader_id} *)

\* reader lookup, then raise 404 or go on.
DeleteReaderQuery(w) ==
    \E reader_id \in ReaderIds :
        /\ ~InFlight(w)
        /\ IF ~ReaderFound(reader_id)
           THEN /\ resp' = Failure("delete_reader", "HTTP404", FALSE, 0,
                                   reader_id, 0)
                /\ req' = req
           ELSE Goto(w, [Idle EXCEPT !.op = "delete_reader", !.pc = "loans",
                                     !.reader_id = reader_id])
        /\ UNCHANGED <<store, nextBookId, nextReaderId, nextLoanId, history>>

\* The loans the handler marks for deletion.
LoansOfReader(reader_id) == {l \in loans : l.reader_id = reader_id}

\* loans lookup; db.delete(loan) for each; db.delete(reader).
DeleteReaderLoans(w) ==
    /\ req[w].op = "delete_reader" /\ req[w].pc = "loans"
    /\ Goto(w, [req[w] EXCEPT !.pc = "commit",
                              !.loans = LoansOfReader(req[w].reader_id)])
    /\ UNCHANGED <<store, nextBookId, nextReaderId, nextLoanId, history>>

\* The rows of loans and readers after the session's DELETEs are committed.
DeleteReaderRows(reader_id, marked) ==
    <<{l \in loans : l.id \notin {m.id : m \in marked}},
      {r \in readers : r.id # reader_id}>>

\* db.commit(): the DELETEs in one transaction (one that matches no row only
\* warns), then return.
DeleteReaderCommit(w) ==
    /\ req[w].op = "delete_reader" /\ req[w].pc = "commit"
    /\ loans' = DeleteReaderRows(req[w].reader_id, req[w].loans)[1]
    /\ readers' = DeleteReaderRows(req[w].reader_id, req[w].loans)[2]
    /\ deletedReaders' = deletedReaders \cup {req[w].reader_id}
    /\ Return(w, ReaderFound(req[w].reader_id))
    /\ UNCHANGED <<books, nextBookId, nextReaderId, nextLoanId>>

-----------------------------------------------------------------------------
(* POST /loans/ *)

\* book lookup, then raise 404 or go on.
IssueBookBook(w) ==
    \E loan \in LoanCreate :
        /\ ~InFlight(w)
        /\ nextLoanId + NumInFlight("issue_book", "reader")
                      + NumInFlight("issue_book", "commit") <= MaxLoanId
        /\ IF ~BookFound(loan.book_id)
           THEN /\ resp' = Failure("issue_book", "HTTP404", FALSE, loan.book_id,
                                   loan.reader_id, 0)
                /\ req' = req
           ELSE Goto(w, [Idle EXCEPT !.op = "issue_book", !.pc = "reader",
                                     !.book_id = loan.book_id,
                                     !.reader_id = loan.reader_id])
        /\ UNCHANGED <<store, nextBookId, nextReaderId, nextLoanId, history>>

\* issue_book as it would be without the check of the reader.
IssueBookReaderUnchecked(w) ==
    /\ req[w].op = "issue_book" /\ req[w].pc = "reader"
    /\ Goto(w, [req[w] EXCEPT !.pc = "commit"])
    /\ UNCHANGED <<store, nextBookId, nextReaderId, nextLoanId, history>>

\* reader lookup, then raise 404 or db.add(new_loan).
IssueBookReader(w) ==
    /\ req[w].op = "issue_book" /\ req[w].pc = "reader"
    /\ IF ~ReaderFound(req[w].reader_id)
       THEN Fail(w, "HTTP404")
       ELSE Goto(w, [req[w] EXCEPT !.pc = "commit"])
    /\ UNCHANGED <<store, nextBookId, nextReaderId, nextLoanId, history>>

\* db.commit(): INSERT INTO loans.
IssueBookCommit(w) ==
    /\ req[w].op = "issue_book" /\ req[w].pc = "commit"
    /\ IF ForeignKeysEnforced
          /\ ~(BookFound(req[w].book_id) /\ ReaderFound(req[w].reader_id))
       THEN /\ loans' = loans
            /\ Fail(w, "IntegrityError")
       ELSE /\ loans' = loans \cup {LoanRow(nextLoanId, req[w].book_id, req[w].reader_id)}
            /\ Goto(w, [req[w] EXCEPT !.pc = "refresh", !.row = [NoRow EXCEPT !.id = nextLoanId],
                                      !.wrote = TRUE])
    /\ nextLoanId' = nextLoanId + 1
    /\ UNCHANGED <<books, readers, nextBookId, nextReaderId, history>>

\* db.refresh(new_loan) and return.
IssueBookRefresh(w) ==
    /\ req[w].op = "issue_book" /\ req[w].pc = "refresh"
    /\ IF \E l \in loans : l.id = req[w].row.id
       THEN Return(w, TRUE)
       ELSE Fail(w, "InvalidRequestError")
    /\ UNCHANGED <<store, nextBookId, nextReaderId, nextLoanId, history>>

-----------------------------------------------------------------------------
(* Queries *)

\* The orders in which a statement without ORDER BY may return the rows S.
Scan(S) ==
    {s \in [1..Cardinality(S) -> S] :
        \A i, j \in 1..Cardinality(S) : s[i] = s[j] => i = j}

\* .offset(skip).limit(limit)
Page(rows, skip, limit) == SubSeq(rows, skip + 1, Min(Len(rows), skip + limit))

\* The response of a handler that returns `rows`.
QueryResponse(op, args, rows) ==
    [op |-> op, status |-> StatusOK, raised |-> "none", applied |-> FALSE,
     book_id |-> 0, reader_id |-> 0, title |-> 0, args |-> args, rows |-> rows]

\* if not rows: raise HTTPException(status_code=404), outside any try.
NotFoundIfEmpty(op, args, rows) ==
    IF rows = <<>>
    THEN [QueryResponse(op, args, rows) EXCEPT !.status = 404, !.raised = "HTTP404"]
    ELSE QueryResponse(op, args, rows)

\* get_loan_details as it would be without the join with Reader.
LoanDetailsJoinBookOnly ==
    {l \in loans : BookFound(l.book_id)}

\* Loan JOIN Book ON book_id JOIN Reader ON reader_id
LoanDetailsJoin ==
    {l \in loans : BookFound(l.book_id) /\ ReaderFound(l.reader_id)}

\* GET /loans/details/
GetLoanDetails(w) ==
    \E skip \in Pages, limit \in Pages, rows \in Scan(LoanDetailsJoin) :
        /\ ~InFlight(w)
        /\ resp' = NotFoundIfEmpty("get_loan_details", NoArgs, Page(rows, skip, limit))
        /\ UNCHANGED <<store, nextBookId, nextReaderId, nextLoanId, req, history>>

-----------------------------------------------------------------------------
(* The service under concurrent requests *)

Init ==
    /\ books = {}
    /\ readers = {}
    /\ loans = {}
    /\ nextBookId = 1
    /\ nextReaderId = 1
    /\ nextLoanId = 1
    /\ req = [w \in Workers |-> Idle]
    /\ resp = NoResp
    /\ deletedReaders = {}

\* Worker w takes a request, or executes the next statement of its handler.
Step(w) ==
        \/ CreateBookQuery(w)
        \/ CreateBookCommit(w)
        \/ CreateBookRefresh(w)
        \/ UpdateBookQuery(w)
        \/ UpdateBookCommit(w)
        \/ UpdateBookRefresh(w)
        \/ DeleteBookQuery(w)
        \/ DeleteBookCommit(w)
        \/ UpdateBooksPublisherQuery(w)
        \/ UpdateBooksPublisherCommit(w)
        \/ CreateReaderCommit(w)
        \/ CreateReaderRefresh(w)
        \/ DeleteReaderQuery(w)
        \/ DeleteReaderLoans(w)
        \/ DeleteReaderCommit(w)
        \/ IssueBookBook(w)
        \/ IssueBookReader(w)
        \/ IssueBookCommit(w)
        \/ IssueBookRefresh(w)
        \/ GetLoanDetails(w)

Next == \E w \in Workers : Step(w)

Spec == Init /\ [][Next]_vars

-----------------------------------------------------------------------------
(* The service when a statement can fail in the store *)

\* The commit or the refresh of worker w's handler raises (connection lost,
\* statement timeout): the except clause rolls the session back and answers
\* 500.  A commit that raised has written nothing.
StoreError(w) ==
    /\ InFlight(w)
    /\ req[w].pc \in {"commit", "refresh"}
    /\ Fail(w, "OperationalError")
    /\ UNCHANGED <<store, nextBookId, nextReaderId, nextLoanId, history>>

\* One worker serves the requests one after the other.
NextFault ==
    \E w \in {1} :
        \/ Step(w)
        \/ StoreError(w)

SpecFault == Init /\ [][NextFault]_vars

-----------------------------------------------------------------------------
(* The read handlers over the books table *)

QueryAuthors == {0, 1}

QueryPublishers == {1, 2}

QueryTopics == {0, 1}

\* The order_by values sent: the four the handler knows, and two it does not.
OrderBys == Columns \cup {"id", "year_published"}

\* The query-string values of author and topic.
AuthorArgs == QueryAuthors \cup {None}

TopicArgs == QueryTopics \cup {None}

\* Python truth of an optional string: None and "" are false.
Truthy(s) == s # None /\ s # 0

\* rows is in the order of ORDER BY col ASC or DESC.
Sorted(rows, col, ascending) ==
    \A i \in 1..(Len(rows) - 1) :
        IF ascending THEN rows[i][col] <= rows[i + 1][col]
                     ELSE rows[i][col] >= rows[i + 1][col]

\* read_books as it would be if it ignored `ascending`.
OrderByAscending(S, order_by, ascending) ==
    IF order_by \in Columns
    THEN {s \in Scan(S) : Sorted(s, order_by, TRUE)}
    ELSE Scan(S)

\* query.order_by(getattr(Book, order_by).asc() or .desc()), for a known column.
OrderBy(S, order_by, ascending) ==
    IF order_by \in Columns
    THEN {s \in Scan(S) : Sorted(s, order_by, ascending)}
    ELSE Scan(S)

\* GET /books/
ReadBooks(w) ==
    \E skip \in Pages, limit \in Pages, order_by \in OrderBys,
       ascending \in BOOLEAN :
        \E rows \in OrderBy(books, order_by, ascending) :
            /\ ~InFlight(w)
            /\ resp' = QueryResponse("read_books",
                                     QueryArgs(skip, limit, order_by, ascending, None, None),
                                     Page(rows, skip, limit))
            /\ UNCHANGED <<store, nextBookId, nextReaderId, nextLoanId, req, history>>

\* search_books as it would be if it dropped the topic filter.
SearchFilterAuthorOnly(author, topic) ==
    {b \in books : Truthy(author) => b.author = author}

\* query.filter(Book.author == author) if author; likewise topic.
SearchFilter(author, topic) ==
    {b \in books : /\ Truthy(author) => b.author = author
                   /\ Truthy(topic) => b.topic = topic}

\* GET /books/search/
SearchBooks(w) ==
    \E author \in AuthorArgs, topic \in TopicArgs, skip \in Pages, limit \in Pages :
        \E rows \in Scan(SearchFilter(author, topic)) :
            /\ ~InFlight(w)
            /\ resp' = NotFoundIfEmpty("search_books",
                                       QueryArgs(skip, limit, "", TRUE, author, topic),
                                       Page(rows, skip, limit))
            /\ UNCHANGED <<store, nextBookId, nextReaderId, nextLoanId, req, history>>

\* count_books_by_topic as it would be if it counted ids over the whole table.
GroupByTopicTotal ==
    {<<t, Cardinality(books)>> : t \in {b.topic : b \in books}}

\* SELECT topic, count(id) FROM books GROUP BY topic
GroupByTopic ==
    {<<t, Cardinality({b \in books : b.topic = t})>> : t \in {b.topic : b \in books}}

\* GET /books/count_by_topic/
CountBooksByTopic(w) ==
    \E skip \in Pages, limit \in Pages, rows \in Scan(GroupByTopic) :
        /\ ~InFlight(w)
        /\ resp' = NotFoundIfEmpty("count_books_by_topic",
                                   QueryArgs(skip, limit, "", TRUE, None, None),
                                   Page(rows, skip, limit))
        /\ UNCHANGED <<store, nextBookId, nextReaderId, nextLoanId, req, history>>

\* The books tables of up to MaxQueryBooks rows that POST /books/ and
\* PUT /books/{id} can leave behind: ids from the sequence, titles distinct.
QueryTables ==
    UNION {
        { {BookRow(i, f[i]) : i \in 1..n} :
            f \in {g \in [1..n -> [title : 1..MaxQueryBooks, author : QueryAuthors,
                                   publisher : QueryPublishers, topic : QueryTopics]] :
                      \A i, j \in 1..n : g[i].title = g[j].title => i = j} }
        : n \in 0..MaxQueryBooks }

InitQuery ==
    /\ books \in QueryTables
    /\ readers = {}
    /\ loans = {}
    /\ nextBookId = Cardinality(books) + 1
    /\ nextReaderId = 1
    /\ nextLoanId = 1
    /\ req = [w \in Workers |-> Idle]
    /\ resp = NoResp
    /\ deletedReaders = {}

\* One request is answered on the table drawn.
FirstReadBooks(w) == resp = NoResp /\ ReadBooks(w)

FirstSearchBooks(w) == resp = NoResp /\ SearchBooks(w)

FirstCountBooksByTopic(w) == resp = NoResp /\ CountBooksByTopic(w)

NextQuery ==
    \E w \in {1} :
        \/ FirstReadBooks(w)
        \/ FirstSearchBooks(w)
        \/ FirstCountBooksByTopic(w)

SpecQuery == InitQuery /\ [][NextQuery]_vars

-----------------------------------------------------------------------------
(* Properties of the concurrent service (Spec) *)

MutatingById == {"update_book", "delete_book", "update_books_publisher"}

\* A step in which worker w's handler executes a statement at `pc`.
Executes(w, op, pc) ==
    req[w].op = op /\ req[w].pc = pc /\ req'[w] # req[w]

\* A step in which a request for `op` is answered by its first statement.
AnsweredAtOnce(op) == req' = req /\ resp' # resp /\ resp'.op = op

\* C1: a createBook request whose title is the title of a Book in the store
\* is answered 400 and leaves the Book rows as they were.
C1_DuplicateTitleIsConflict ==
    [][ (AnsweredAtOnce("create_book") /\ \E b \in books : b.title = resp'.title)
        => (resp'.status = 400 /\ books' = books) ]_vars

\* C2: in every reachable state no two Book rows share a title.
C2_TitlesUnique ==
    \A b1, b2 \in books : b1.title = b2.title => b1 = b2

\* Two createBook requests of one title interleaved: the second INSERT was
\* rejected at commit.
C2_Witness ==
    /\ resp.op = "create_book" /\ resp.raised = "IntegrityError"
    /\ \E b \in books : b.title = resp.title

\* C3: a listLoanDetails answered after deleteReader(r) was answered 200
\* returns no Loan whose reader_id is r.
C3_NoLoanOfDeletedReader ==
    resp.op = "get_loan_details" =>
        \A i \in 1..Len(resp.rows) : resp.rows[i].reader_id \notin deletedReaders

\* listLoanDetails is answered while the store holds a Loan of a deleted
\* Reader, inserted by a createLoan that was in flight during the delete.
C3_Witness ==
    /\ resp.op = "get_loan_details"
    /\ \E l \in loans : l.reader_id \in deletedReaders

\* C4: a mutating request naming an absent row is answered 404 and leaves the
\* store as it was.
C4_AbsentRowIsNotFound ==
    [][ /\ \A op \in MutatingById :
              (AnsweredAtOnce(op) /\ ~\E b \in books : b.id = resp'.book_id)
              => (resp'.status = 404 /\ store' = store)
        /\ (AnsweredAtOnce("delete_reader") /\ ~\E r \in readers : r.id = resp'.reader_id)
           => (resp'.status = 404 /\ store' = store)
        /\ (AnsweredAtOnce("issue_book") /\ ~\E b \in books : b.id = resp'.book_id)
           => (resp'.status = 404 /\ store' = store)
        /\ \A w \in Workers :
              (Executes(w, "issue_book", "reader")
               /\ ~\E r \in readers : r.id = req[w].reader_id)
              => (resp'.status = 404 /\ store' = store) ]_vars

\* C7: a request that ends in a failure has left no write in the committed
\* store, and a step that deletes a Loan of a Reader deletes the Reader and
\* all of the Reader's Loans.
C7_AllOrNothing ==
    /\ [](resp.status = 500 => ~resp.applied)
    /\ [][ \A r \in ReaderIds :
              (\E l \in loans \ loans' : l.reader_id = r)
              => /\ ~\E x \in readers' : x.id = r
                 /\ ~\E l \in loans' : l.reader_id = r ]_vars

\* C8: createLoan goes on after each lookup exactly if the row is there, and
\* its commit adds one Loan with the two ids of the request and an id no Loan
\* has had, leaving books and readers as they were; nothing else adds a Loan.
C8_IssueBook ==
    [][ /\ \A w \in Workers :
              /\ (req[w].op = "idle" /\ req'[w].op = "issue_book")
                 => /\ \E b \in books : b.id = req'[w].book_id
                    /\ store' = store
              /\ Executes(w, "issue_book", "reader")
                 => /\ store' = store
                    /\ req'[w].pc = "commit" <=> \E r \in readers : r.id = req[w].reader_id
                    /\ req'[w].pc # "commit" => resp'.status # 200
              /\ Executes(w, "issue_book", "commit")
                 => /\ \E id \in nextLoanId..MaxLoanId :
                          /\ \A l \in loans : l.id < id
                          /\ nextLoanId' > id
                          /\ loans' = loans \cup {[id |-> id, book_id |-> req[w].book_id,
                                                   reader_id |-> req[w].reader_id]}
                    /\ Cardinality(loans') = Cardinality(loans) + 1
                    /\ books' = books /\ readers' = readers
        /\ (AnsweredAtOnce("issue_book"))
           => (~\E b \in books : b.id = resp'.book_id) /\ store' = store
        /\ (loans' \ loans # {})
           => \E w \in Workers : Executes(w, "issue_book", "commit") ]_vars

\* A second Loan has been issued.
C8_Witness ==
    resp.op = "issue_book" /\ resp.status = 200 /\ Cardinality(loans) = 2

\* C9: the commit of deleteBook(b) removes the Book row b and nothing else;
\* listLoanDetails returns only Loans whose Book and Reader are in the store;
\* and a Book row that appears carries an id the sequence had not given out,
\* so the id of a deleted Book stays absent.
C9_DeleteBookLeavesLoans ==
    /\ [][ \A w \in Workers :
              Executes(w, "delete_book", "commit")
              => /\ books' = {b \in books : b.id # req[w].book_id}
                 /\ loans' = loans
                 /\ readers' = readers
                 /\ resp'.status = 200 ]_vars
    /\ [](resp.op = "get_loan_details" =>
             \A i \in 1..Len(resp.rows) :
                 /\ \E b \in books : b.id = resp.rows[i].book_id
                 /\ \E r \in readers : r.id = resp.rows[i].reader_id)
    /\ [][ \A b \in books' :
              (\A c \in books : c.id # b.id) => (nextBookId <= b.id /\ b.id < nextBookId') ]_vars

\* deleteBook(b) has been answered 200 and a Loan of b is still in the store.
C9_Witness ==
    /\ resp.op = "delete_book" /\ resp.status = 200 /\ resp.applied
    /\ \E l \in loans : l.book_id = resp.book_id

-----------------------------------------------------------------------------
(* Properties of the read handlers (SpecQuery) *)

\* The rows left of n after the first skip.
Remaining(n, skip) == IF n > skip THEN n - skip ELSE 0

\* rows holds pairwise distinct elements of S.
DistinctFrom(rows, S) ==
    /\ \A i \in 1..Len(rows) : rows[i] \in S
    /\ \A i, j \in 1..Len(rows) : rows[i] = rows[j] => i = j

\* rows is the page (skip, limit) of the Book rows in the order of column col:
\* the i-th row has the key that stands at place skip + i of that order.
IsPageInOrder(rows, col, ascending, skip, limit) ==
    /\ DistinctFrom(rows, books)
    /\ Len(rows) = Min(limit, Remaining(Cardinality(books), skip))
    /\ \A i \in 1..Len(rows) :
          LET k == rows[i][col]
              before == {b \in books : IF ascending THEN b[col] < k ELSE b[col] > k}
              upto == {b \in books : IF ascending THEN b[col] <= k ELSE b[col] >= k}
          IN  Cardinality(before) <= skip + i - 1 /\ skip + i <= Cardinality(upto)

\* The Book rows with author A and topic T, a filter that is None not applied.
Matching(A, T) ==
    {b \in books : (A # None => b.author = A) /\ (T # None => b.topic = T)}

\* The Book rows with author A and topic T, a filter that is None or ""
\* not applied.
MatchingNonEmpty(A, T) ==
    {b \in books : (A \notin {None, 0} => b.author = A)
                   /\ (T \notin {None, 0} => b.topic = T)}

\* The (topic, count) pairs of the Book rows.
TopicCounts ==
    {<<b.topic, Cardinality({c \in books : c.topic = b.topic})>> : b \in books}

\* C5: searchBooks returns exactly the Book rows that match the filters
\* given, and answers 404 exactly if there is none.
C5_SearchReturnsAllMatching ==
    resp.op = "search_books" =>
        LET M == Matching(resp.args.author, resp.args.topic)
        IN  /\ {resp.rows[i] : i \in 1..Len(resp.rows)} = M
            /\ resp.status = 404 <=> M = {}

\* C5 as amended: searchBooks returns the page (skip, limit) of the matching
\* rows in the store's order, an empty filter counting as none, and answers
\* 404 exactly if the page is empty.
C5_SearchReturnsPage ==
    resp.op = "search_books" =>
        LET M == MatchingNonEmpty(resp.args.author, resp.args.topic)
        IN  /\ DistinctFrom(resp.rows, M)
            /\ Len(resp.rows) = Min(resp.args.limit,
                                    Remaining(Cardinality(M), resp.args.skip))
            /\ resp.status = IF Len(resp.rows) = 0 THEN 404 ELSE 200

\* Both filters given, and a Book that matches the author alone left out.
C5_Witness ==
    /\ resp.op = "search_books" /\ resp.status = 200
    /\ resp.args.author = 1 /\ resp.args.topic = 1
    /\ \E b \in books : b.author = 1 /\ b.topic # 1

\* C6: countBooksByTopic returns one (topic, count) pair for each topic of
\* the Book rows and answers 404 exactly if there is no Book row.
C6_CountReturnsAllTopics ==
    resp.op = "count_books_by_topic" =>
        /\ {resp.rows[i] : i \in 1..Len(resp.rows)} = TopicCounts
        /\ Len(resp.rows) = Cardinality(TopicCounts)
        /\ resp.status = 404 <=> books = {}

\* C6 as amended: countBooksByTopic returns the page (skip, limit) of the
\* (topic, count) pairs in the store's order and answers 404 exactly if the
\* page is empty.
C6_CountReturnsPage ==
    resp.op = "count_books_by_topic" =>
        /\ DistinctFrom(resp.rows, TopicCounts)
        /\ Len(resp.rows) = Min(resp.args.limit,
                                Remaining(Cardinality(TopicCounts), resp.args.skip))
        /\ resp.status = IF Len(resp.rows) = 0 THEN 404 ELSE 200

\* Two Books of one topic counted.
C6_Witness ==
    /\ resp.op = "count_books_by_topic" /\ resp.status = 200
    /\ \E i \in 1..Len(resp.rows) : resp.rows[i][2] = 2

\* C10: listBooks answers 200 with the page in the order of the column asked
\* for, or of id when the column is not one of the four, and leaves the store
\* as it was.
C10_ListInOrderOrById ==
    /\ [](resp.op = "read_books" =>
             /\ resp.status = 200
             /\ IsPageInOrder(resp.rows,
                              IF resp.args.order_by \in Columns
                              THEN resp.args.order_by ELSE "id",
                              IF resp.args.order_by \in Columns
                              THEN resp.args.ascending ELSE TRUE,
                              resp.args.skip, resp.args.limit))
    /\ [][resp'.op = "read_books" => store' = store]_vars

\* C10 as amended: with a column that is not one of the four the page is
\* taken in the store's order.
C10_ListInOrderOrAny ==
    /\ [](resp.op = "read_books" =>
             /\ resp.status = 200
             /\ IF resp.args.order_by \in Columns
                THEN IsPageInOrder(resp.rows, resp.args.order_by, resp.args.ascending,
                                   resp.args.skip, resp.args.limit)
                ELSE /\ DistinctFrom(resp.rows, books)
                     /\ Len(resp.rows) = Min(resp.args.limit,
                                             Remaining(Cardinality(books), resp.args.skip)))
    /\ [][resp'.op = "read_books" => store' = store]_vars

\* The second Book by author, descending, of two with different authors.
C10_Witness ==
    /\ resp.op = "read_books" /\ resp.args.order_by = "author"
    /\ ~resp.args.ascending /\ resp.args.skip = 1 /\ Len(resp.rows) = 1
    /\ \E b \in books : b.author > resp.rows[1].author

====
